---- MODULE Spec2Model ----
(***************************************************************************)
(* QSerialPlotter: the COBS/CRC frame decoder of SerialManager             *)
(* (src/src/main.py) and the time-windowed series store of PlotterWidget   *)
(* (src/src/plotter_widget.py).                                            *)
(***************************************************************************)
EXTENDS Integers, Sequences, FiniteSets, TLC

VARIABLES
    state,      \* SerialManager.state: "START", "SCAN" or "ESC"
    cobs_code,  \* SerialManager.cobs_code: the run counter
    packet,     \* SerialManager.packet: the bytes de-stuffed so far
    ret,        \* the value the last update() call returned (None or a Packet)
    last,       \* the argument of the last update() call and the decoder as it entered
    rx,         \* the bytes on the serial line that the worker has not fed yet
    tx,         \* the frame the sender is transmitting (what rx was made from)
    act,        \* the operation that made the last step
    nframes,    \* frames sent so far
    nfaults,    \* line faults (noise bytes, inserted zeros, flipped bits) so far
    wpc,        \* where the worker thread is: "idle" (not running), "test", "read",
                \* "feed", "close" or "quit"
    stop_event, \* SerialManager.stop_event.is_set()
    is_open,    \* SerialManager.serial.isOpen()
    batch,      \* data: the bytes of the batch read that the for loop has not reached
    emitted,    \* the packets packet_received was emitted with, in order
    returned,   \* history: the packets update() returned to the worker, in order
    late_reads, \* history: read_all() calls made since the stop event was set
    running,    \* PlotterWidget.running
    max_value,  \* PlotterWidget.max_value
    min_value,  \* PlotterWidget.min_value
    span_secs,  \* PlotterWidget.span_secs
    timer,      \* PlotterWidget.timer: [valid, elapsed], its reading in milliseconds
    chart,      \* the names of the series attached to the chart
    points,     \* per series, its points [x, y] from head to tail
    visible,    \* per series, QXYSeries.isVisible()
    listed,     \* per series, whether its item is in the list of ColoredListEdit
    axis_x,     \* the range <<min, max>> of the X axis
    axis_y,     \* the range of the Y axis, in tenths: <<10 * min, 10 * max>>
    evicted,    \* history: the points the plot_values call just made removed
    since_start \* history: whether a start or reset of the running session has had
                \* no plot_values call yet ("none" if not), and whether the timer
                \* was valid ("timed") or not ("idle") when it returned

decoderVars == <<state, cobs_code, packet, ret, last>>
lineVars == <<rx, tx, nframes, nfaults>>
workerVars == <<wpc, stop_event, is_open, batch, emitted, returned, late_reads>>
serialVars == <<state, cobs_code, packet, ret, last, rx, tx, act, nframes, nfaults,
                workerVars>>
plotVars == <<running, max_value, min_value, span_secs, timer, chart, points,
              visible, listed, axis_x, axis_y, since_start, evicted>>
vars == <<serialVars, plotVars>>

----------------------------------------------------------------------------
(* Bounds of the model *)

\* frames the sender transmits in one behaviour
MaxFrames == 2
\* line faults in one behaviour
MaxFaults == 1
\* points the series of the chart are let hold together
MaxPoints == 3
\* the names a key of a plot_values mapping takes
Names == {"a", "b"}
\* the names of the series add_series is called with
Series == {"a"}
\* the values a plot_values mapping gives
Vals == {-1, 2}
\* the timespans set_timespan is called with, in seconds
Spans == {1}
\* seconds a started timer is let run: one past the longest of Spans
MaxElapsed == (CHOOSE v \in Spans : \A w \in Spans : w <= v) + 1
\* the payloads the sender draws from, each as <<the byte value that fills its
\* non-zero positions, the positions that hold 0x00>>
PayloadShapes == {<<4, {}>>, <<255, {1}>>, <<4, {28}>>, <<255, {2, 3}>>, <<4, 1..28>>}
\* the payloads of the frames that reach the worker's port
WorkerShapes == {<<4, {}>>, <<255, {2, 3}>>}
\* the byte values line noise takes between frames
NoiseBytes == {0, 1, 255}

----------------------------------------------------------------------------
(* Program constants *)

PACKET_LENGTH == 28
PACKET_TERMINATOR == 0

\* Python's None, as update() and parse_packet() return it
None == <<>>

----------------------------------------------------------------------------
(* util.crc16_xmodem: CRC-16/XMODEM, polynomial 0x1021, initial value 0,   *)
(* no reflection, on 16-bit words                                          *)

RECURSIVE BitXor(_, _)
BitXor(a, b) ==
    IF a = 0 THEN b
    ELSE IF b = 0 THEN a
    ELSE (((a % 2) + (b % 2)) % 2) + 2 * BitXor(a \div 2, b \div 2)

\* bit w (a power of two) of x inverted
toggle(x, w) == IF (x \div w) % 2 = 0 THEN x + w ELSE x - w

\* x xor 0x1021: the polynomial x^16 + x^12 + x^5 + 1, its bits 12, 5 and 0
xor_poly(x) == toggle(toggle(toggle(x, 4096), 32), 1)

\* eight shifts of the 16-bit register, the polynomial folded in whenever the
\* bit shifted out is set
RECURSIVE crc_bits(_, _)
crc_bits(crc, n) ==
    IF n = 0 THEN crc
    ELSE IF crc >= 32768 THEN crc_bits(xor_poly((crc * 2) % 65536), n - 1)
    ELSE crc_bits(crc * 2, n - 1)

\* one byte: xor it into the high byte of the register, then shift eight times
crc_byte(crc, b) == crc_bits(BitXor(crc \div 256, b) * 256 + (crc % 256), 8)

RECURSIVE crc_from(_, _, _)
crc_from(crc, data, i) ==
    IF i > Len(data) THEN crc
    ELSE LET reg == crc_byte(crc, data[i])
         IN  \* the register is a 16-bit word after every byte
             CASE reg \in 0..65535 -> crc_from(reg, data, i + 1)

crc16_xmodem(data) == crc_from(0, data, 1)

----------------------------------------------------------------------------
(* struct.unpack *)

\* struct.unpack("<H", b): two bytes, little-endian, as an unsigned 16-bit word
unpack_H(b) == b[1] + 256 * b[2]

\* one "<f" field: the IEEE-754 binary32 the four little-endian bytes encode,
\* as its sign bit, its biased exponent and its 23-bit fraction
unpack_f(b, k) ==
    [sign |-> b[4 * k] \div 128,
     exponent |-> (b[4 * k] % 128) * 2 + (b[4 * k - 1] \div 128),
     fraction |-> (b[4 * k - 1] % 128) * 65536 + b[4 * k - 2] * 256 + b[4 * k - 3]]

\* struct.unpack("<7f", payload) handed to Packet(...): the seven fields in order
unpack_7f(payload) == [k \in 1..7 |-> unpack_f(payload, k)]

----------------------------------------------------------------------------
(* SerialManager.parse_packet *)

parse_packet_nocrc(p) ==
    IF Len(p) # PACKET_LENGTH + 2 THEN None
    ELSE unpack_7f(SubSeq(p, 1, Len(p) - 2))

parse_packet(p) ==
    IF Len(p) # PACKET_LENGTH + 2 THEN None
    ELSE LET packet_payload == SubSeq(p, 1, Len(p) - 2)
             packet_checksum == unpack_H(SubSeq(p, Len(p) - 1, Len(p)))
             real_checksum == crc16_xmodem(packet_payload)
         IN IF packet_checksum # real_checksum THEN None
            ELSE unpack_7f(packet_payload)

----------------------------------------------------------------------------
(* SerialManager.update, on the decoder d = [state, cobs_code, packet, ret] *)

\* the match statement (main.py:121-145)
match_case_noimplied(d, c) ==
    CASE d.state = "START" ->
            [d EXCEPT !.cobs_code = c, !.state = "SCAN"]
      [] d.state = "SCAN" /\ c = PACKET_TERMINATOR ->
            [d EXCEPT !.state = "START", !.packet = <<>>]
      [] d.state = "ESC" /\ c = PACKET_TERMINATOR ->
            [d EXCEPT !.ret = parse_packet(d.packet),
                      !.state = "START", !.packet = <<>>]
      [] d.state = "SCAN" /\ c # PACKET_TERMINATOR ->
            [d EXCEPT !.packet = Append(d.packet, c)]
      [] d.state = "ESC" /\ c # PACKET_TERMINATOR ->
            [d EXCEPT !.cobs_code = c, !.state = "SCAN"]

match_case_parse_early(d, c) ==
    CASE d.state = "START" ->
            [d EXCEPT !.cobs_code = c, !.state = "SCAN"]
      [] d.state = "SCAN" /\ c = PACKET_TERMINATOR ->
            [d EXCEPT !.state = "START", !.packet = <<>>]
      [] d.state = "ESC" /\ c = PACKET_TERMINATOR ->
            [d EXCEPT !.ret = parse_packet(d.packet),
                      !.state = "START", !.packet = <<>>]
      [] d.state = "SCAN" /\ c # PACKET_TERMINATOR ->
            [d EXCEPT !.packet = Append(d.packet, c)]
      [] d.state = "ESC" /\ c # PACKET_TERMINATOR ->
            [d EXCEPT !.ret = parse_packet(d.packet),
                      !.packet = Append(d.packet, PACKET_TERMINATOR),
                      !.cobs_code = c, !.state = "SCAN"]

match_case_keeps_failed(d, c) ==
    CASE d.state = "START" ->
            [d EXCEPT !.cobs_code = c, !.state = "SCAN"]
      [] d.state = "SCAN" /\ c = PACKET_TERMINATOR ->
            [d EXCEPT !.state = "START", !.packet = <<>>]
      [] d.state = "ESC" /\ c = PACKET_TERMINATOR ->
            IF parse_packet(d.packet) = None THEN [d EXCEPT !.state = "START"]
            ELSE [d EXCEPT !.ret = parse_packet(d.packet),
                           !.state = "START", !.packet = <<>>]
      [] d.state = "SCAN" /\ c # PACKET_TERMINATOR ->
            [d EXCEPT !.packet = Append(d.packet, c)]
      [] d.state = "ESC" /\ c # PACKET_TERMINATOR ->
            [d EXCEPT !.packet = Append(d.packet, PACKET_TERMINATOR),
                      !.cobs_code = c, !.state = "SCAN"]

match_case(d, c) ==
    CASE d.state = "START" ->
            \* start of packet byte does not represent any payload character
            [d EXCEPT !.cobs_code = c, !.state = "SCAN"]
      [] d.state = "SCAN" /\ c = PACKET_TERMINATOR ->
            \* unexpected packet termination, drop this packet
            [d EXCEPT !.state = "START", !.packet = <<>>]
      [] d.state = "ESC" /\ c = PACKET_TERMINATOR ->
            \* packet is complete, process it
            [d EXCEPT !.ret = parse_packet(d.packet),
                      !.state = "START", !.packet = <<>>]
      [] d.state = "SCAN" /\ c # PACKET_TERMINATOR ->
            [d EXCEPT !.packet = Append(d.packet, c)]
      [] d.state = "ESC" /\ c # PACKET_TERMINATOR ->
            [d EXCEPT !.packet = Append(d.packet, PACKET_TERMINATOR),
                      !.cobs_code = c, !.state = "SCAN"]

after_match_decrement_first(d) ==
    [d EXCEPT !.state = IF d.cobs_code - 1 = 1 THEN "ESC" ELSE d.state,
              !.cobs_code = d.cobs_code - 1]

after_match_off_by_one(d) ==
    [d EXCEPT !.state = IF d.cobs_code = 0 THEN "ESC" ELSE d.state,
              !.cobs_code = d.cobs_code - 1]

\* the statements after the match (main.py:147-151), run on every path
after_match(d) ==
    [d EXCEPT !.state = IF d.cobs_code = 1 THEN "ESC" ELSE d.state,
              !.cobs_code = d.cobs_code - 1]

\* update(c): packet = None, the match, the run counter, return packet
update(d, c) == after_match(match_case([d EXCEPT !.ret = None], c))

decoder == [state |-> state, cobs_code |-> cobs_code, packet |-> packet, ret |-> ret]

----------------------------------------------------------------------------
(* The sender: the wire format of a frame                                  *)

\* struct.pack("<H", w)
pack_H(w) == <<(w % 256), (w \div 256)>>

\* COBS: each zero-free run r of the data becomes <<Len(r) + 1>> \o r; a run of
\* a 30-byte block is shorter than 254 bytes, so no run is ever split
RECURSIVE cobs_run(_, _, _)
cobs_run(data, i, run) ==
    IF i > Len(data) THEN <<Len(run) + 1>> \o run
    ELSE IF data[i] = 0 THEN <<Len(run) + 1>> \o run \o cobs_run(data, i + 1, <<>>)
    ELSE cobs_run(data, i + 1, Append(run, data[i]))

cobs_encode(data) == cobs_run(data, 1, <<>>)

\* [overhead][COBS-encoded: payload ++ CRC16/XMODEM, little-endian][0x00]
Frame(payload) ==
    cobs_encode(payload \o pack_H(crc16_xmodem(payload))) \o <<PACKET_TERMINATOR>>

\* the payloads the sender draws from: PACKET_LENGTH bytes each
Payloads ==
    {[i \in 1..PACKET_LENGTH |-> IF i \in sh[2] THEN 0 ELSE sh[1]] : sh \in PayloadShapes}

\* the encoded frame of each payload of Payloads
Frames == [p \in Payloads |-> Frame(p)]

\* the indices of the code bytes (run-length bytes) of an encoded frame
RECURSIVE CodeIdx(_, _)
CodeIdx(enc, i) ==
    IF i > Len(enc) \/ enc[i] = PACKET_TERMINATOR THEN {}
    ELSE {i} \cup CodeIdx(enc, i + enc[i])

\* index i of enc is strictly inside a run: a data byte, before the run's boundary
InsideRun(enc, i) ==
    /\ i \in 1..(Len(enc) - 1)
    /\ i \notin CodeIdx(enc, 1)

\* one bit of a byte flipped on the line (bit 0)
flip(b) == IF (b % 2) = 0 THEN b + 1 ELSE b - 1

\* the encoded frame tx was sent as
tx_enc == Frames[tx.payload]

NoTx == [payload |-> <<>>, fresh |-> FALSE, after0 |-> FALSE,
         afterzeroed |-> FALSE, fault |-> "none"]

----------------------------------------------------------------------------
(* The decoder fed from the serial line *)

\* the worker thread at pc, the port open or not, nothing read or emitted yet
worker_at(pc, opened) ==
    /\ wpc = pc
    /\ is_open = opened
    /\ stop_event = FALSE
    /\ batch = <<>>
    /\ emitted = <<>>
    /\ returned = <<>>
    /\ late_reads = 0

\* open(): packet = bytearray(), state = START; cobs_code is not assigned and
\* holds what an earlier connection left (code0): update() assigns it before
\* it reads it
SerialInit(code0) ==
    /\ state = "START"
    /\ cobs_code = code0
    /\ packet = <<>>
    /\ ret = None
    /\ last = [c |-> -1, state |-> "START", cobs_code |-> 0, packet |-> <<>>]
    /\ rx = <<>>
    /\ tx = NoTx
    /\ act = "open"
    /\ nframes = 0
    /\ nfaults = 0
    /\ worker_at("test", TRUE)

\* the sender puts one well-formed frame on the line
SendFrame ==
    /\ rx = <<>>
    /\ nframes < MaxFrames
    /\ \E p \in Payloads :
        /\ rx' = Frames[p]
        /\ tx' = [payload |-> p,
                  fresh |-> state = "START" /\ packet = <<>>,
                  after0 |-> last.c = PACKET_TERMINATOR,
                  afterzeroed |-> /\ tx.fresh
                                  /\ tx.fault = "zero_in_run"
                                  /\ act = "update",
                  fault |-> "none"]
    /\ nframes' = nframes + 1
    /\ act' = "send"
    /\ UNCHANGED <<decoderVars, nfaults>>
    /\ UNCHANGED workerVars
    /\ UNCHANGED plotVars

\* a stray byte arrives between two frames
Noise ==
    /\ rx = <<>>
    /\ nfaults < MaxFaults
    /\ \E b \in NoiseBytes : rx' = <<b>>
    /\ tx' = NoTx
    /\ nfaults' = nfaults + 1
    /\ act' = "noise"
    /\ UNCHANGED <<decoderVars, nframes>>
    /\ UNCHANGED workerVars
    /\ UNCHANGED plotVars

\* a spurious 0x00 arrives before the next byte of the frame in flight
InsertZero ==
    /\ rx # <<>>
    /\ tx.payload # <<>>
    /\ nfaults < MaxFaults
    /\ rx' = <<PACKET_TERMINATOR>> \o rx
    /\ tx' = [tx EXCEPT !.fault =
                IF tx.fault = "none" /\ InsideRun(tx_enc, Len(tx_enc) - Len(rx) + 1)
                THEN "zero_in_run" ELSE "other"]
    /\ nfaults' = nfaults + 1
    /\ act' = "insert_zero"
    /\ UNCHANGED <<decoderVars, nframes>>
    /\ UNCHANGED workerVars
    /\ UNCHANGED plotVars

\* one bit of the next byte of the frame in flight is flipped
FlipBit ==
    /\ rx # <<>>
    /\ tx.payload # <<>>
    /\ nfaults < MaxFaults
    /\ rx' = <<flip(Head(rx))>> \o Tail(rx)
    /\ tx' = [tx EXCEPT !.fault = "other"]
    /\ nfaults' = nfaults + 1
    /\ act' = "flip"
    /\ UNCHANGED <<decoderVars, nframes>>
    /\ UNCHANGED workerVars
    /\ UNCHANGED plotVars

\* worker(): for c in data: packet = self.update(c)
Update ==
    /\ rx # <<>>
    /\ LET d == update(decoder, Head(rx)) IN
        /\ state' = d.state
        /\ cobs_code' = d.cobs_code
        /\ packet' = d.packet
        /\ ret' = d.ret
    /\ last' = [c |-> Head(rx), state |-> state, cobs_code |-> cobs_code,
                packet |-> packet]
    /\ rx' = Tail(rx)
    /\ act' = "update"
    /\ UNCHANGED <<tx, nframes, nfaults>>
    /\ UNCHANGED workerVars
    /\ UNCHANGED plotVars

----------------------------------------------------------------------------
(* SerialManager.open, close and worker: the reader thread *)

\* what arrives at the port: the frames of the WorkerShapes payloads, and the
\* first of them with a bit of its checksum flipped
LineFrames ==
    LET good == {Frames[[i \in 1..PACKET_LENGTH |-> IF i \in sh[2] THEN 0 ELSE sh[1]]] :
                    sh \in WorkerShapes}
        f == Frames[[i \in 1..PACKET_LENGTH |-> 4]]
    IN  good \cup {[f EXCEPT ![Len(f) - 1] = flip(@)]}

\* bytes arrive at the port, behind those not read yet
Arrive ==
    /\ nframes < MaxFrames
    /\ \E f \in LineFrames : rx' = rx \o f
    /\ nframes' = nframes + 1
    /\ UNCHANGED <<decoderVars, tx, act, nfaults, workerVars>>
    /\ UNCHANGED plotVars

\* open(), called on the UI thread: thread.wait() returns once the thread is
\* not running; then serial.open(), the decoder reset, stop_event.clear(),
\* thread.start()
open_nowait ==
    /\ is_open' = TRUE
    /\ packet' = <<>>
    /\ state' = "START"
    /\ stop_event' = FALSE
    /\ late_reads' = 0
    /\ wpc' = IF wpc = "idle" THEN "test" ELSE wpc
    /\ UNCHANGED <<cobs_code, ret, last, rx, tx, act, nframes, nfaults, batch,
                   emitted, returned>>
    /\ UNCHANGED plotVars

open ==
    /\ wpc = "idle"
    /\ is_open' = TRUE
    /\ packet' = <<>>
    /\ state' = "START"
    /\ stop_event' = FALSE
    /\ late_reads' = 0
    /\ wpc' = "test"
    /\ UNCHANGED <<cobs_code, ret, last, rx, tx, act, nframes, nfaults, batch,
                   emitted, returned>>
    /\ UNCHANGED plotVars

\* close(), called on the UI thread: stop_event.set()
close ==
    /\ stop_event' = TRUE
    /\ UNCHANGED <<decoderVars, lineVars, act, wpc, is_open, batch, emitted,
                   returned, late_reads>>
    /\ UNCHANGED plotVars

\* worker(): while not self.stop_event.is_set()
worker_test ==
    /\ wpc = "test"
    /\ wpc' = IF stop_event THEN "close" ELSE "read"
    /\ UNCHANGED <<decoderVars, lineVars, act, stop_event, is_open, batch,
                   emitted, returned, late_reads>>
    /\ UNCHANGED plotVars

\* how many of the len bytes on the line have arrived when read_all() is
\* called: none, a part that ends inside a frame, or all of them
BatchSizes(len) == {n \in {0, 20, len} : n <= len}

\* data = self.serial.read_all(): the bytes that have arrived so far; an empty
\* batch leads back to the test
worker_read ==
    /\ wpc = "read"
    /\ \E n \in BatchSizes(Len(rx)) :
        /\ batch' = SubSeq(rx, 1, n)
        /\ rx' = SubSeq(rx, n + 1, Len(rx))
        /\ wpc' = IF n = 0 THEN "test" ELSE "feed"
    /\ late_reads' = IF stop_event THEN late_reads + 1 ELSE late_reads
    /\ UNCHANGED <<decoderVars, tx, act, nframes, nfaults, stop_event, is_open,
                   emitted, returned>>
    /\ UNCHANGED plotVars

\* if packet is not None: self.packet_received.emit(packet)
emit_always(pkt, out) == Append(out, pkt)

emit_if_packet(pkt, out) == IF pkt # None THEN Append(out, pkt) ELSE out

\* one turn of "for c in data": packet = self.update(c), and the emission;
\* run holds the decoder, the samples emitted and those update() returned
after_update(d, run) ==
    [d |-> d,
     emitted |-> emit_if_packet(d.ret, run.emitted),
     returned |-> IF d.ret # None THEN Append(run.returned, d.ret)
                  ELSE run.returned]

for_turn(run, c) == after_update(update(run.d, c), run)

\* for c in data, the turns in the order of the bytes (the first half of the
\* batch, then the second, which keeps the evaluation shallow)
RECURSIVE for_c_in(_, _)
for_c_in(data, run) ==
    IF data = <<>> THEN run
    ELSE IF Len(data) = 1 THEN for_turn(run, data[1])
    ELSE CHOOSE done \in
            {for_c_in(SubSeq(data, Len(data) \div 2 + 1, Len(data)), half) :
                half \in {for_c_in(SubSeq(data, 1, Len(data) \div 2), run)}} : TRUE

\* the for loop over the batch read; close() may set the event while it runs,
\* which the loop does not look at; after it the loop is back at its test
worker_feed ==
    /\ wpc = "feed"
    /\ \E run \in {for_c_in(batch, [d |-> decoder, emitted |-> emitted,
                                      returned |-> returned])} :
        /\ state' = run.d.state
        /\ cobs_code' = run.d.cobs_code
        /\ packet' = run.d.packet
        /\ ret' = run.d.ret
        /\ emitted' = run.emitted
        /\ returned' = run.returned
    /\ batch' = <<>>
    /\ wpc' = "test"
    /\ UNCHANGED <<last, lineVars, act, stop_event, is_open, late_reads>>
    /\ UNCHANGED plotVars

worker_close_keeps_port ==
    /\ wpc = "close"
    /\ wpc' = "quit"
    /\ UNCHANGED <<decoderVars, lineVars, act, stop_event, is_open, batch,
                   emitted, returned, late_reads>>
    /\ UNCHANGED plotVars

\* self.serial.close(), after the loop
worker_close ==
    /\ wpc = "close"
    /\ is_open' = FALSE
    /\ wpc' = "quit"
    /\ UNCHANGED <<decoderVars, lineVars, act, stop_event, batch, emitted,
                   returned, late_reads>>
    /\ UNCHANGED plotVars

\* QThread.currentThread().quit(), and worker() returns: the thread finishes
worker_quit ==
    /\ wpc = "quit"
    /\ wpc' = "idle"
    /\ UNCHANGED <<decoderVars, lineVars, act, stop_event, is_open, batch,
                   emitted, returned, late_reads>>
    /\ UNCHANGED plotVars

----------------------------------------------------------------------------
(* PlotterWidget: the time-windowed series store *)

\* the mappings plot_values is called with, each a set of <<name, value>> items
Mappings ==
    {m \in SUBSET (Names \X Vals) : \A p, q \in m : p[1] = q[1] => p = q}

\* the keys of a mapping, the value under a key, and values.values()
Keys(m) == {p[1] : p \in m}
Value(m, k) == (CHOOSE p \in m : p[1] = k)[2]
Values(m) == {p[2] : p \in m}

min_for_max(S) == CHOOSE v \in S : \A w \in S : v <= w

\* Python's max() and min() of a non-empty collection
Max(S) == CHOOSE v \in S : \A w \in S : w <= v
Min(S) == CHOOSE v \in S : \A w \in S : v <= w

PlotInit ==
    \* __init__: no series yet, stopped, the timer invalid, span_secs = 10.0
    /\ running = FALSE
    /\ max_value = 0
    /\ min_value = 0
    /\ span_secs = 10
    /\ timer = [valid |-> FALSE, elapsed |-> 0]
    /\ chart = {}
    /\ points = [s \in Names |-> <<>>]
    /\ visible = [s \in Names |-> TRUE]
    /\ listed = [s \in Names |-> FALSE]
    /\ axis_x = <<0, 10>>
    /\ axis_y = <<0, 0>>
    /\ since_start = "none"
    /\ evicted = 0

\* one second passes: the reading of a started QElapsedTimer grows by 1000 ms
Tick ==
    /\ timer.valid
    /\ timer.elapsed < MaxElapsed * 1000
    /\ timer' = [timer EXCEPT !.elapsed = @ + 1000]
    /\ UNCHANGED <<running, max_value, min_value, span_secs, chart, points,
                   visible, listed, axis_x, axis_y, since_start>>
    /\ UNCHANGED serialVars
    /\ evicted' = 0

\* add_series(series), series a new, empty and visible QLineSeries named s
add_series(s) ==
    /\ s \notin chart
    /\ chart' = chart \cup {s}
    /\ points' = [points EXCEPT ![s] = <<>>]
    /\ visible' = [visible EXCEPT ![s] = TRUE]
    /\ listed' = [listed EXCEPT ![s] = FALSE]
    /\ UNCHANGED <<running, max_value, min_value, span_secs, timer, axis_x,
                   axis_y, since_start>>
    /\ UNCHANGED serialVars
    /\ evicted' = 0

\* SeriesItem.on_add, the item picked from the "Add" menu: item.show()
on_add(s) ==
    /\ s \in chart
    /\ ~listed[s]
    /\ listed' = [listed EXCEPT ![s] = TRUE]
    /\ visible' = [visible EXCEPT ![s] = TRUE]
    /\ UNCHANGED <<running, max_value, min_value, span_secs, timer, chart,
                   points, axis_x, axis_y, since_start>>
    /\ UNCHANGED serialVars
    /\ evicted' = 0

\* SeriesItem.on_remove, the item removed from the list: item.hide(), item.clear()
on_remove(s) ==
    /\ s \in chart
    /\ listed[s]
    /\ listed' = [listed EXCEPT ![s] = FALSE]
    /\ visible' = [visible EXCEPT ![s] = FALSE]
    /\ points' = [points EXCEPT ![s] = <<>>]
    /\ UNCHANGED <<running, max_value, min_value, span_secs, timer, chart,
                   axis_x, axis_y, since_start>>
    /\ UNCHANGED serialVars
    /\ evicted' = 0

set_timespan(secs) ==
    /\ secs # span_secs
    /\ span_secs' = secs
    /\ UNCHANGED <<running, max_value, min_value, timer, chart, points,
                   visible, listed, axis_x, axis_y, since_start>>
    /\ UNCHANGED serialVars
    /\ evicted' = 0

start_plotting ==
    /\ max_value' = 0
    /\ min_value' = 0
    /\ running' = TRUE
    /\ since_start' = IF timer.valid THEN "timed" ELSE "idle"
    /\ UNCHANGED <<span_secs, timer, chart, points, visible, listed, axis_x,
                   axis_y>>
    /\ UNCHANGED serialVars
    /\ evicted' = 0

\* stop_plotting: map(lambda series: series.clear(), ...) builds an iterator
\* that nothing consumes, so no series.clear() call is made
stop_plotting ==
    /\ running' = FALSE
    /\ axis_y' = <<0, 0>>
    /\ axis_x' = <<0, span_secs>>
    /\ points' = points
    /\ timer' = [valid |-> FALSE, elapsed |-> 0]
    /\ since_start' = "none"
    /\ UNCHANGED <<max_value, min_value, span_secs, chart, visible, listed>>
    /\ UNCHANGED serialVars
    /\ evicted' = 0

reset_plot_keeps_timer ==
    /\ axis_y' = <<0, 0>>
    /\ axis_x' = <<0, span_secs>>
    /\ points' = points
    /\ timer' = timer
    /\ max_value' = 0
    /\ min_value' = 0
    /\ running' = TRUE
    /\ since_start' = "idle"
    /\ UNCHANGED <<span_secs, chart, visible, listed>>
    /\ UNCHANGED serialVars
    /\ evicted' = 0

\* reset_plot: stop_plotting() and then start_plotting()
reset_plot ==
    /\ axis_y' = <<0, 0>>
    /\ axis_x' = <<0, span_secs>>
    /\ points' = points
    /\ timer' = [valid |-> FALSE, elapsed |-> 0]
    /\ max_value' = 0
    /\ min_value' = 0
    /\ running' = TRUE
    /\ since_start' = "idle"
    /\ UNCHANGED <<span_secs, chart, visible, listed>>
    /\ UNCHANGED serialVars
    /\ evicted' = 0

evict_count_whole(pts, i, threshold) ==
    Cardinality({k \in 1..Len(pts) : pts[k].x < threshold})

\* the loop of plot_values over the head of one series: the number of points
\* removePoints(0, i) removes, i counted up from the i given
RECURSIVE evict_count(_, _, _)
evict_count(pts, i, threshold) ==
    IF i < Len(pts) - 1 /\ pts[i + 2].x < threshold
    THEN evict_count(pts, i + 1, threshold)
    ELSE i

\* one series after the body of the loop of plot_values
plot_series(pts, s, values, elapsed) ==
    LET i == evict_count(pts, 0, elapsed - span_secs)
        kept == SubSeq(pts, i + 1, Len(pts))
    IN  IF s \notin Keys(values) THEN kept
        ELSE Append(kept, [x |-> elapsed, y |-> Value(values, s)])

\* the points the loops of one plot_values call remove, all series together
RECURSIVE count_evicted(_, _)
count_evicted(S, threshold) ==
    IF S = {} THEN 0
    ELSE LET s == CHOOSE t \in S : TRUE
         IN  evict_count(points[s], 0, threshold) + count_evicted(S \ {s}, threshold)

\* the points the series of the chart hold together
RECURSIVE count_points(_)
count_points(S) ==
    IF S = {} THEN 0
    ELSE LET s == CHOOSE t \in S : TRUE
         IN  Len(points[s]) + count_points(S \ {s})

stored == count_points(chart)

\* elapsed, as plot_values computes it: 0 on the call that starts the timer,
\* else timer.elapsed() / 1000 (the clock reads whole seconds: the quotient is
\* exact)
elapsed_millis == IF timer.valid THEN timer.elapsed ELSE 0

elapsed_secs == IF timer.valid THEN timer.elapsed \div 1000 ELSE 0

\* plot_values past its test of running (plotter_widget.py:355-389)
ingest(values) ==
    LET elapsed == elapsed_secs
        \* the series that reach the update of the Y axis range
        ranged == {s \in chart : s \in Keys(values) /\ visible[s]}
        new_max == IF ranged = {} THEN max_value
                   ELSE Max({max_value} \cup Values(values))
        new_min == IF ranged = {} THEN min_value
                   ELSE Min({min_value} \cup Values(values))
    IN  /\ stored + Cardinality(chart \cap Keys(values)) <= MaxPoints
        \* timer.start() on the first call after the timer was invalidated
        /\ timer' = IF timer.valid THEN timer
                    ELSE [valid |-> TRUE, elapsed |-> 0]
        /\ points' = [s \in Names |->
                        IF s \in chart
                        THEN plot_series(points[s], s, values, elapsed)
                        ELSE points[s]]
        /\ max_value' = new_max
        /\ min_value' = new_min
        /\ axis_y' = IF ranged = {} THEN axis_y
                     ELSE <<new_min * 11, new_max * 11>>
        /\ axis_x' = IF elapsed > span_secs
                     THEN <<elapsed - span_secs, elapsed>>
                     ELSE <<0, span_secs>>
        /\ evicted' = count_evicted(chart, elapsed - span_secs)
        /\ UNCHANGED <<running, span_secs, chart, visible, listed>>

plot_values_unguarded(values) ==
    /\ ingest(values)
    /\ since_start' = "none"
    /\ UNCHANGED serialVars

plot_values(values) ==
    /\ IF ~running
       THEN UNCHANGED <<running, max_value, min_value, span_secs, timer, chart,
                        points, visible, listed, axis_x, axis_y, evicted>>
       ELSE ingest(values)
    /\ since_start' = "none"
    /\ UNCHANGED serialVars

----------------------------------------------------------------------------
(* Specifications *)

Init == (\E code0 \in {0, 1} : SerialInit(code0)) /\ PlotInit

\* the decoder fed from the serial line
Next ==
    \/ SendFrame
    \/ Noise
    \/ InsertZero
    \/ FlipBit
    \/ Update

Spec == Init /\ [][Next]_vars

\* the plotter driven by its slots and the clock
PlotNext ==
    \/ Tick
    \/ \E s \in Series : add_series(s)
    \/ \E s \in Series : on_add(s)
    \/ \E s \in Series : on_remove(s)
    \/ \E secs \in Spans : set_timespan(secs)
    \/ start_plotting
    \/ stop_plotting
    \/ reset_plot
    \/ \E values \in Mappings : plot_values(values)

\* the widget as constructed, beside a decoder that is fed nothing
PlotStart == SerialInit(0) /\ PlotInit

PlotSpec == PlotStart /\ [][PlotNext]_vars

\* a SerialManager as constructed: no thread running, the port closed (the
\* decoder's fields are assigned by open() and update())
WorkerStart ==
    /\ state = "START"
    /\ cobs_code = 0
    /\ packet = <<>>
    /\ ret = None
    /\ last = [c |-> -1, state |-> "START", cobs_code |-> 0, packet |-> <<>>]
    /\ rx = <<>>
    /\ tx = NoTx
    /\ act = "init"
    /\ nframes = 0
    /\ nfaults = 0
    /\ worker_at("idle", FALSE)
    /\ PlotInit

\* the steps of the worker thread outside the for loop
WorkerStep == worker_test \/ worker_read \/ worker_close \/ worker_quit

\* the UI thread's open() and close(), the line, and the worker thread
WorkerNext ==
    \/ Arrive
    \/ open
    \/ close
    \/ worker_test
    \/ worker_read
    \/ worker_feed
    \/ worker_close
    \/ worker_quit

\* the worker thread is scheduled fairly: a step of it that can be taken is
\* taken, and the for loop over a batch, which is finite, comes to its end
WorkerSpec ==
    /\ WorkerStart
    /\ [][WorkerNext]_vars
    /\ WF_vars(WorkerStep)
    /\ []<>(wpc # "feed")

\* the plotter with every name of Names a channel, at one instant of the clock:
\* series attached, shown and hidden, sessions started and stopped, values
\* ingested
ChannelNext ==
    \/ \E s \in Names : add_series(s)
    \/ \E s \in Names : on_add(s)
    \/ \E s \in Names : on_remove(s)
    \/ start_plotting
    \/ stop_plotting
    \/ \E values \in Mappings : plot_values(values)

ChannelSpec == PlotStart /\ [][ChannelNext]_vars

----------------------------------------------------------------------------
(* Properties of the decoder *)

\* the last step was an update() call on a byte of the frame tx
FedFrameByte == act = "update" /\ tx.payload # <<>>

\* C1 (round trip): a well-formed frame fed byte by byte to a decoder that was in
\* START with an empty packet makes update() return None on every byte before
\* the terminator and, on the terminator, the Packet of the frame's payload.
RoundTrip ==
    (FedFrameByte /\ tx.fresh /\ tx.fault = "none") =>
        IF rx = <<>> THEN ret = unpack_7f(tx.payload) ELSE ret = None

\* a frame whose payload holds zero and non-zero bytes was decoded to its Packet
RoundTripWitness ==
    /\ FedFrameByte /\ tx.fresh /\ tx.fault = "none" /\ rx = <<>>
    /\ \E i, j \in 1..PACKET_LENGTH : tx.payload[i] = 0 /\ tx.payload[j] # 0
    /\ ret = unpack_7f(tx.payload)
    /\ ret # None

\* C2 (resync after corruption): a frame F1 fed to a fresh decoder with one
\* spurious 0x00 inserted strictly inside a run yields no sample, and a
\* well-formed frame F2 sent right after it yields F2's sample on its terminator.
ResyncAfterSpuriousZero ==
    /\ (FedFrameByte /\ tx.fresh /\ tx.fault = "zero_in_run") => ret = None
    /\ (FedFrameByte /\ tx.afterzeroed /\ tx.fault = "none" /\ rx = <<>>) =>
            ret = unpack_7f(tx.payload)

\* C3 (sync error): a terminator received in SCAN, whatever the run counter,
\* returns None and leaves the packet empty and the decoder in START.
SyncErrorResets ==
    (act = "update" /\ last.state = "SCAN" /\ last.c = PACKET_TERMINATOR) =>
        (ret = None /\ packet = <<>> /\ state = "START")

\* C4 (self-synchronisation): whatever was fed before, one 0x00 followed by a
\* well-formed frame yields that frame's sample on the frame's terminator.
SelfSynchronising ==
    (FedFrameByte /\ tx.after0 /\ tx.fault = "none" /\ rx = <<>>) =>
        ret = unpack_7f(tx.payload)

\* C5: update() returns a sample only on a terminator received in ESC; every
\* other call (a non-terminator byte, any byte in START, a terminator in SCAN)
\* returns None.
SampleOnlyOnEscTerminator ==
    (act = "update" /\ ~(last.state = "ESC" /\ last.c = PACKET_TERMINATOR)) =>
        ret = None

\* a sample was returned, on a terminator received in ESC
SampleOnlyOnEscTerminatorWitness ==
    act = "update" /\ ret # None /\ last.state = "ESC" /\ last.c = PACKET_TERMINATOR

PacketBufferBounded == Len(packet) <= PACKET_LENGTH + 2

----------------------------------------------------------------------------
(* Properties of the plotter *)

\* C8 (stop clears): right after stop_plotting() returns, running is false, the
\* timer is invalid and every series attached to the chart holds no point.
StopClearsSeries ==
    [][stop_plotting =>
        /\ ~running'
        /\ ~timer'.valid
        /\ \A s \in chart' : points'[s] = <<>>]_vars

\* C9 (timestamp ordering): in every series buffer the timestamps are
\* non-decreasing from head to tail.
TimestampsNonDecreasing ==
    \A s \in Names : \A i \in 1..(Len(points[s]) - 1) :
        points[s][i].x <= points[s][i + 1].x

\* C10 (windowed eviction): after a plot_values call made while running at
\* elapsed time e, every series buffer holds at most one point whose timestamp
\* is strictly less than e - span_secs.
WindowedEviction ==
    [][\A values \in Mappings :
        (running /\ plot_values(values)) =>
            \A s \in chart' :
                Cardinality({i \in 1..Len(points'[s]) :
                    points'[s][i].x < elapsed_secs - span_secs}) <= 1]_vars

\* the values a mapping gives for the visible series of the chart
VisibleValues(values) ==
    {Value(values, s) : s \in {t \in chart \cap Keys(values) : visible[t]}}

\* C11 (hidden channels): a plot_values call made while running, whose keys all
\* name series of the chart, leaves max_value and min_value at their old value
\* or at a value it gave for a visible series: a value given for a hidden
\* series never becomes a tracker.
HiddenChannelsExcluded ==
    [][\A values \in Mappings :
        (running /\ Keys(values) \subseteq chart /\ plot_values(values)) =>
            /\ max_value' \in {max_value} \cup VisibleValues(values)
            /\ min_value' \in {min_value} \cup VisibleValues(values)]_vars

\* every series the call appended to has its newest point at timestamp 0
AppendedAtZero(values) ==
    \A s \in chart \cap Keys(values) :
        /\ points'[s] # <<>>
        /\ points'[s][Len(points'[s])].x = 0

\* C12 (first ingest), as stated: the first plot_values call after any
\* start_plotting() or reset_plot() appends its points with timestamp 0.
FirstIngestAfterAnyStart ==
    [][\A values \in Mappings :
        (since_start # "none" /\ plot_values(values)) => AppendedAtZero(values)]_vars

\* C12, amended: the first plot_values call after a reset_plot(), or after a
\* start_plotting() that found the timer invalid, appends its points with
\* timestamp 0.
FirstIngestAtZero ==
    [][\A values \in Mappings :
        (since_start = "idle" /\ plot_values(values)) => AppendedAtZero(values)]_vars

\* a session's first ingest put a point at timestamp 0 behind a point of an
\* earlier session with a larger timestamp, and no time has passed since
FirstIngestAtZeroWitness ==
    /\ running /\ since_start = "none"
    /\ timer.valid /\ timer.elapsed = 0
    /\ \E s \in chart :
        /\ Len(points[s]) >= 2
        /\ points[s][Len(points[s])].x = 0
        /\ points[s][Len(points[s]) - 1].x > 0

\* C13 (range trackers): every plot_values call leaves max_value at least and
\* min_value at most what it was; a step that tightens a tracker is a
\* start_plotting() or reset_plot() step; and min_value <= 0 <= max_value in
\* every state.
RangeNeverTightens ==
    [][/\ \A values \in Mappings :
            plot_values(values) =>
                (max_value' >= max_value /\ min_value' <= min_value)
       /\ (max_value' < max_value \/ min_value' > min_value) =>
                (start_plotting \/ reset_plot)
       /\ min_value <= 0 /\ 0 <= max_value
       /\ min_value' <= 0 /\ 0 <= max_value']_vars

\* both trackers were widened, and a later ingest of a smaller value left the
\* maximum where it was
RangeNeverTightensWitness ==
    /\ running /\ since_start = "none"
    /\ max_value = 2 /\ min_value = -1
    /\ \E s \in chart :
        /\ Len(points[s]) >= 2
        /\ points[s][Len(points[s])].y = -1
        /\ points[s][Len(points[s]) - 1].y = 2

\* C14 (no-op when not running): a plot_values call made while running is
\* false leaves every series buffer, min_value, max_value, the timer and both
\* axis ranges unchanged.
IngestIgnoredWhenStopped ==
    [][\A values \in Mappings :
        (~running /\ plot_values(values)) =>
            UNCHANGED <<points, min_value, max_value, timer, axis_x, axis_y>>]_vars

\* a stopped widget whose series hold points and whose trackers are widened:
\* the state that a plot_values call made in it leaves as it is
IngestIgnoredWhenStoppedWitness ==
    /\ ~running /\ ~timer.valid
    /\ max_value > 0
    /\ \E s \in chart : points[s] # <<>>

\* C15 (X range): after a plot_values call made while running at elapsed time
\* e, the X axis range is [e - span_secs, e] if e > span_secs and
\* [0, span_secs] otherwise; its width is span_secs and its start is not
\* negative.
ViewportXRange ==
    [][\A values \in Mappings :
        (running /\ plot_values(values)) =>
            LET e == IF timer.valid THEN timer.elapsed \div 1000 ELSE 0
            IN  /\ axis_x' = IF e > span_secs THEN <<e - span_secs, e>>
                             ELSE <<0, span_secs>>
                /\ axis_x'[2] - axis_x'[1] = span_secs
                /\ axis_x'[1] >= 0]_vars

\* an ingest at an elapsed time past the timespan moved the window off 0
ViewportXRangeWitness ==
    /\ running /\ since_start = "none"
    /\ timer.valid /\ timer.elapsed \div 1000 > span_secs
    /\ axis_x = <<timer.elapsed \div 1000 - span_secs, timer.elapsed \div 1000>>
    /\ axis_x[1] > 0

----------------------------------------------------------------------------
(* The reader thread *)

\* C16: in any batching of the stream, packet_received is emitted once for each
\* update() call that returns a sample and never otherwise: the samples emitted
\* are the samples returned, in the order of the stream.
OneEmissionPerSample == emitted = returned

\* two different samples were emitted, in the order of their frames
OneEmissionPerSampleWitness ==
    /\ Len(emitted) = 2
    /\ emitted[1] # emitted[2]
    /\ rx = <<>>
    /\ wpc = "test"

\* C17 as stated: once close() has set the stop event the worker performs no
\* further read.
NoReadAfterClose == [][worker_read => ~stop_event]_vars

\* C17 (as the code has it): after close() has set the stop event the worker
\* performs at most one further read, the one whose test of the event came
\* before the close(), and the port is eventually closed.
CancellationBounded == [](late_reads <= 1) /\ (stop_event ~> ~is_open)

\* close() fell between the test and the read: the worker is feeding a batch
\* read after the event was set, the port still open
CancellationBoundedWitness ==
    stop_event /\ is_open /\ wpc = "feed" /\ late_reads = 1 /\ batch # <<>>

\* C18: a terminator received in ESC leaves the decoder in START with an empty
\* packet, whether or not a sample was returned, whatever the run counter.
EscTerminatorResets ==
    (act = "update" /\ last.state = "ESC" /\ last.c = PACKET_TERMINATOR) =>
        (state = "START" /\ packet = <<>>)

\* a terminator in ESC after a packet of the right length whose checksum did
\* not match: no sample
EscTerminatorResetsWitness ==
    /\ act = "update" /\ last.state = "ESC" /\ last.c = PACKET_TERMINATOR
    /\ Len(last.packet) = PACKET_LENGTH + 2
    /\ ret = None
    /\ state = "START" /\ packet = <<>>

\* C19 (de-stuffing): a code n >= 1 read in START appends nothing, a code read
\* in ESC appends one 0x00; either leaves n - 1 in the run counter and the
\* decoder in SCAN, or in ESC at once if n = 1; each non-terminator byte read
\* in SCAN with k >= 1 left is appended as it is and leaves k - 1, the decoder
\* going to ESC with the last of them: exactly n - 1 literal bytes, then ESC.
DeStuffing ==
    act = "update" =>
        /\ (last.state = "START" /\ last.c >= 1) =>
                /\ packet = last.packet
                /\ cobs_code = last.c - 1
                /\ state = IF last.c = 1 THEN "ESC" ELSE "SCAN"
        /\ (last.state = "ESC" /\ last.c # PACKET_TERMINATOR) =>
                /\ packet = Append(last.packet, 0)
                /\ cobs_code = last.c - 1
                /\ state = IF last.c = 1 THEN "ESC" ELSE "SCAN"
        /\ (last.state = "SCAN" /\ last.c # PACKET_TERMINATOR /\ last.cobs_code >= 1) =>
                /\ packet = Append(last.packet, last.c)
                /\ cobs_code = last.cobs_code - 1
                /\ state = IF last.cobs_code = 1 THEN "ESC" ELSE "SCAN"

\* the last literal byte of a run was appended, behind an implied zero and
\* other literal bytes, and the decoder is in ESC
DeStuffingWitness ==
    /\ act = "update" /\ last.state = "SCAN" /\ last.c # PACKET_TERMINATOR
    /\ last.cobs_code = 1
    /\ state = "ESC"
    /\ Len(packet) >= 3
    /\ \E i \in 1..Len(last.packet) : last.packet[i] = 0

\* C20: the stop event is cleared, and the decoder is written to by anything
\* other than the worker's loop, only when no worker is running.
SingleReader ==
    [][((stop_event /\ ~stop_event') \/
        (<<state, packet>>' # <<state, packet>> /\ ~worker_feed)) =>
            (wpc = "idle" /\ open)]_vars

\* a worker started by a later open(): its decoder went back to START with an
\* empty packet in the middle of a run, which only open() does
SingleReaderWitness ==
    /\ wpc = "test" /\ is_open /\ ~stop_event
    /\ state = "START" /\ packet = <<>> /\ cobs_code > 1

----------------------------------------------------------------------------
(* Eviction and the run counter *)

\* C21 (line continuity): the eviction step of a plot_values call removes a
\* prefix of a series' points and never the last one left; when it removes any,
\* the new head point is older than elapsed - span_secs and the point after
\* it, if there is one, is not.
EvictionKeepsContinuity ==
    [][\A values \in Mappings :
        (running /\ plot_values(values)) =>
            \A s \in chart :
                LET threshold == elapsed_secs - span_secs
                    appended == IF s \in Keys(values) THEN 1 ELSE 0
                    kept == SubSeq(points'[s], 1, Len(points'[s]) - appended)
                    removed == Len(points[s]) - Len(kept)
                IN  /\ removed >= 0
                    /\ kept = SubSeq(points[s], removed + 1, Len(points[s]))
                    /\ points[s] # <<>> => kept # <<>>
                    /\ removed >= 1 =>
                        /\ kept[1].x < threshold
                        /\ Len(kept) >= 2 => kept[2].x >= threshold]_vars

\* the plot_values call just made removed a point of a series that keeps its
\* new head, from before the window, and the point appended behind it
EvictionKeepsContinuityWitness ==
    /\ evicted >= 1
    /\ \E s \in chart :
        /\ Len(points[s]) >= 2
        /\ points[s][1].x < axis_x[1]
        /\ points[s][2].x >= axis_x[1]

\* C22: after every update() call, state is ESC exactly when cobs_code is 0:
\* the ESC branches are entered with cobs_code 0 only, SCAN never with 0.
EscIffCounterZero == act = "update" => (state = "ESC" <=> cobs_code = 0)

\* ESC entered with cobs_code 0 by the statements after the match, from a
\* terminator read in SCAN with one byte of the run left
EscIffCounterZeroWitness ==
    /\ act = "update" /\ state = "ESC" /\ cobs_code = 0
    /\ last.state = "SCAN" /\ last.c = PACKET_TERMINATOR

============================================================================
